---- MODULE Spec2Model ----
(***************************************************************************)
(* A model of claude-playbooks/scripts/context-analyzer.py.                *)
(*                                                                         *)
(* File and directory names are sequences of atoms ("package", ".",        *)
(* "json"), so that prefix, suffix and substring tests are computed and    *)
(* not looked up.  A path is a sequence of names relative to the project   *)
(* root; the root itself is the empty path.  Documents are sequences of    *)
(* characters (the overview) or of lines of atoms (the task tracker).      *)
(***************************************************************************)
EXTENDS Integers, Sequences, FiniteSets, TLC

VARIABLES
    fs,             \* the project tree: [name, dirs, files], metadata directory excluded
    manifest,       \* what package.json holds, when the tree has one
    vcs,            \* the version-control environment of the root
    meta,           \* whether .claude/context exists
    overview,       \* .claude/context/project-overview.md
    bak,            \* .claude/context/project-overview.md.bak
    tracker,        \* .claude/context/task-tracker.md
    pc,             \* position of the current invocation
    upd,            \* args.update of the current invocation
    clock,          \* datetime.now(), one tick per invocation
    project_types,  \* generate_analysis: project_types
    git_info,       \* generate_analysis: git_info
    build_tools,    \* generate_analysis: build_tools
    structure,      \* generate_analysis: structure
    outcome,        \* how the last invocation ended
    start,          \* history: the documents and flag when the invocation began
    prev            \* history: the overview the previous completed invocation wrote

vars == <<fs, manifest, vcs, meta, overview, bak, tracker, pc, upd, clock,
          project_types, git_info, build_tools, structure, outcome, start, prev>>

(***************************************************************************)
(* Bounds of the model.                                                    *)
(***************************************************************************)
MaxDirs == 2        \* directories made below the root
MaxFiles == 2       \* files put in the tree
MaxMarkers == 3     \* files put at the root for marker detection
MaxRuns == 2        \* invocations of the command
MaxOvLines == 3     \* lines of a hand-written overview
MaxLines == 2       \* lines of a hand-written task tracker
MaxBase == 1        \* status entries of the project's own files

(***************************************************************************)
(* Strings.                                                                *)
(***************************************************************************)
Lower(a) ==
    CASE a = "README" -> "readme"
      [] a = "Doc" -> "doc"
      [] a = "Test" -> "test"
      [] a = "PY" -> "py"
      [] OTHER -> a

LowerName(n) == [i \in 1..Len(n) |-> Lower(n[i])]

IsInfix(sub, s) ==
    \E i \in 0..(Len(s) - Len(sub)) : SubSeq(s, i + 1, i + Len(sub)) = sub

StartsWith(s, p) == Len(p) <= Len(s) /\ SubSeq(s, 1, Len(p)) = p

EndsWith(s, p) == Len(p) <= Len(s) /\ SubSeq(s, Len(s) - Len(p) + 1, Len(s)) = p

RECURSIVE Order(_)
Order(S) ==
    IF S = {} THEN <<>>
    ELSE LET x == CHOOSE y \in S : TRUE
         IN  <<x>> \o Order(S \ {x})

Range(s) == {s[i] : i \in 1..Len(s)}

(***************************************************************************)
(* The project tree.                                                       *)
(***************************************************************************)
Root == <<>>

Parent(p) == SubSeq(p, 1, Len(p) - 1)

Base(p) == p[Len(p)]

Exists(tree, p) == p \in tree.dirs \/ p \in tree.files

Children(tree, d) == {c \in tree.dirs : Len(c) > 0 /\ Parent(c) = d}

FilesIn(tree, d) == {f \in tree.files : Parent(f) = d}

DirName(tree, d) == IF d = Root THEN tree.name ELSE Base(d)

(***************************************************************************)
(* detect_project_type                                                     *)
(***************************************************************************)
indicators ==
    << [tag |-> "python",
        files |-> << <<"requirements", ".", "txt">>, <<"setup", ".", "py">>,
                     <<"pyproject", ".", "toml">>, <<"Pipfile">> >>],
       [tag |-> "javascript",
        files |-> << <<"package", ".", "json">>, <<"yarn", ".", "lock">>,
                     <<"npm-shrinkwrap", ".", "json">> >>],
       [tag |-> "typescript",
        files |-> << <<"tsconfig", ".", "json">>, <<"package", ".", "json">> >>],
       [tag |-> "rust", files |-> << <<"Cargo", ".", "toml">> >>],
       [tag |-> "go", files |-> << <<"go", ".", "mod">>, <<"go", ".", "sum">> >>],
       [tag |-> "java",
        files |-> << <<"pom", ".", "xml">>, <<"build", ".", "gradle">>,
                     <<"build", ".", "gradle", ".", "kts">> >>],
       [tag |-> "docker",
        files |-> << <<"Doc", "kerfile">>, <<"doc", "ker-compose", ".", "yml">>,
                     <<"doc", "ker-compose", ".", "yaml">> >>] >>

\* The inner loop without its break: one append per marker file found.
RECURSIVE MarkerLoopNoBreak(_, _, _)
MarkerLoopNoBreak(tree, tag, files) ==
    IF files = <<>> THEN <<>>
    ELSE IF Exists(tree, <<Head(files)>>)
         THEN <<tag>> \o MarkerLoopNoBreak(tree, tag, Tail(files))
         ELSE MarkerLoopNoBreak(tree, tag, Tail(files))

\* for file in files: if exists: detected.append(proj_type); break
RECURSIVE MarkerLoop(_, _, _)
MarkerLoop(tree, tag, files) ==
    IF files = <<>> THEN <<>>
    ELSE IF Exists(tree, <<Head(files)>>)
         THEN <<tag>>
         ELSE MarkerLoop(tree, tag, Tail(files))

RECURSIVE IndicatorLoop(_, _)
IndicatorLoop(tree, inds) ==
    IF inds = <<>> THEN <<>>
    ELSE MarkerLoop(tree, Head(inds).tag, Head(inds).files)
            \o IndicatorLoop(tree, Tail(inds))

detect_project_type(tree) ==
    LET found == IndicatorLoop(tree, indicators)
    IN  IF found # <<>> THEN found ELSE <<"unknown">>

(***************************************************************************)
(* scan_project_structure                                                  *)
(***************************************************************************)
IgnoredDirs == { <<"node_modules">>, <<"__pycache__">>, <<"target">> }

\* The filter without the hidden-directory test.
PrunedVendorOnly(d) == d \in IgnoredDirs

\* The filter without the list of vendor and build directories.
PrunedHiddenOnly(d) == StartsWith(d, <<".">>)

\* dirs[:] = [d for d in dirs if not d.startswith('.') and d not in [...]]
Pruned(d) == StartsWith(d, <<".">>) \/ d \in IgnoredDirs

\* os.walk, top down, over the directories the filter keeps
RECURSIVE WalkFrom(_, _)
RECURSIVE WalkList(_, _)
WalkFrom(tree, d) ==
    <<d>> \o WalkList(tree, Order({c \in Children(tree, d) : ~Pruned(Base(c))}))

WalkList(tree, ds) ==
    IF ds = <<>> THEN <<>>
    ELSE WalkFrom(tree, Head(ds)) \o WalkList(tree, Tail(ds))

TestWords == << <<"test">>, <<"test", "s">>, <<"spec">> >>
SourceWords == << <<"src">>, <<"lib">>, <<"app">> >>
DocWords == << <<"readme">>, <<"doc">>, <<"changelog">> >>

AnyWordIn(words, name) ==
    \E i \in 1..Len(words) : IsInfix(words[i], LowerName(name))

ConfigExtensions == {"json", "yaml", "yml", "toml", "ini", "cfg"}

\* any(re.match(pattern, file) for pattern in config_patterns)
IsConfigFile(file) ==
    \/ \E e \in ConfigExtensions : EndsWith(file, <<".", e>>)
    \/ file = <<"Doc", "kerfile">>
    \/ file = <<"Makefile">>
    \/ StartsWith(file, <<"requirements">>) /\ EndsWith(file, <<".", "txt">>)
    \/ file = <<"go", ".", "mod">>

IsDocFile(file) == AnyWordIn(DocWords, file)

\* Path.suffix: from the last dot, unless the dot leads or ends the name
Suffix(file) ==
    LET dots == {i \in 1..Len(file) : file[i] = "."}
    IN  IF dots = {} THEN <<>>
        ELSE LET i == CHOOSE j \in dots : \A k \in dots : k <= j
             IN  IF 1 < i /\ i < Len(file) THEN SubSeq(file, i, Len(file))
                 ELSE <<>>

source_extensions ==
    [e \in {"py", "js", "ts", "rs", "go", "java", "cpp", "c", "h", "hpp"} |->
        CASE e = "py" -> "python" [] e = "js" -> "javascript"
          [] e = "ts" -> "typescript" [] e = "rs" -> "rust" [] e = "go" -> "go"
          [] e = "java" -> "java" [] e = "cpp" -> "cpp" [] e = "c" -> "c"
          [] e = "h" -> "c" [] e = "hpp" -> "cpp"]

\* languages[lang] = languages.get(lang, 0) + 1, in a dict that keeps insertion order
CountLanguage(languages, lang) ==
    IF \E i \in 1..Len(languages) : languages[i].lang = lang
    THEN [i \in 1..Len(languages) |->
            IF languages[i].lang = lang
            THEN [lang |-> lang, n |-> languages[i].n + 1]
            ELSE languages[i]]
    ELSE Append(languages, [lang |-> lang, n |-> 1])

EmptyStructure ==
    [config_files |-> <<>>, source_dirs |-> <<>>, doc_files |-> <<>>,
     test_dirs |-> <<>>, total_files |-> 0, languages |-> <<>>]

ScanFile(st, path) ==
    LET file == Base(path)
        ext == LowerName(Suffix(file))
        counted == Len(ext) = 2 /\ ext[2] \in DOMAIN source_extensions
    IN  [st EXCEPT
            !.total_files = @ + 1,
            !.config_files = IF IsConfigFile(file) THEN Append(@, path) ELSE @,
            !.doc_files = IF IsDocFile(file) THEN Append(@, path) ELSE @,
            !.languages = IF counted
                          THEN CountLanguage(@, source_extensions[ext[2]])
                          ELSE @]

RECURSIVE ScanFiles(_, _)
ScanFiles(st, paths) ==
    IF paths = <<>> THEN st
    ELSE ScanFiles(ScanFile(st, Head(paths)), Tail(paths))

ScanDir(tree, st, d) ==
    LET name == DirName(tree, d)
        classified ==
            IF AnyWordIn(TestWords, name)
            THEN [st EXCEPT !.test_dirs = Append(@, d)]
            ELSE IF AnyWordIn(SourceWords, name)
                 THEN [st EXCEPT !.source_dirs = Append(@, d)]
                 ELSE st
    IN  ScanFiles(classified, Order(FilesIn(tree, d)))

RECURSIVE ScanDirs(_, _, _)
ScanDirs(tree, st, ds) ==
    IF ds = <<>> THEN st
    ELSE ScanDirs(tree, ScanDir(tree, st, Head(ds)), Tail(ds))

scan_project_structure(tree) == ScanDirs(tree, EmptyStructure, WalkFrom(tree, Root))

(***************************************************************************)
(* Documents.  A file is absent or holds a text.  The overview's text is a *)
(* sequence of characters; "#" and "\n" are single characters and every    *)
(* other token stands for a run of characters without "#" or "\n".  The    *)
(* tracker's text is its list of lines (content.split('\n')), each line a  *)
(* sequence of atoms.                                                      *)
(***************************************************************************)
NoFile == [exists |-> FALSE, text |-> <<>>]

File(t) == [exists |-> TRUE, text |-> t]

Stamp(t) == ToString(<<"time", t>>)

Date(t) == ToString(<<"date", t>>)

RECURSIVE Flatten(_)
Flatten(ss) == IF ss = <<>> THEN <<>> ELSE Head(ss) \o Flatten(Tail(ss))

\* the lines joined by "\n"
RECURSIVE JoinLines(_)
JoinLines(ls) ==
    IF ls = <<>> THEN <<>>
    ELSE IF Len(ls) = 1 THEN ls[1]
         ELSE ls[1] \o <<"\n">> \o JoinLines(Tail(ls))

\* str.find, 1-based; 0 when pat does not occur
Find(s, pat) ==
    LET hits == {i \in 1..(Len(s) - Len(pat) + 1) : SubSeq(s, i, i + Len(pat) - 1) = pat}
    IN  IF hits = {} THEN 0 ELSE CHOOSE i \in hits : \A j \in hits : i <= j

\* s.split(pat)[0]
SplitHead(s, pat) ==
    IF Find(s, pat) = 0 THEN s ELSE SubSeq(s, 1, Find(s, pat) - 1)

\* s.split(pat)[1], for s that holds pat
SplitSecond(s, pat) ==
    SplitHead(SubSeq(s, Find(s, pat) + Len(pat), Len(s)), pat)

(***************************************************************************)
(* analyze_git_status.  The version-control tool is an external            *)
(* collaborator: vcs.mode says whether the root is outside any repository  *)
(* ("none"), the tool cannot be run ("missing"), or the root is in a       *)
(* repository where the metadata directory is ignored ("ignored") or       *)
(* neither tracked nor ignored ("untracked"); vcs.base is the number of    *)
(* status entries the project's own files produce.  An untracked directory *)
(* that holds at least one file is one more entry.                         *)
(***************************************************************************)
MetaHasFiles == overview.exists \/ bak.exists \/ tracker.exists

StatusEntries(v, metaFiles) ==
    v.base + (IF v.mode = "untracked" /\ metaFiles THEN 1 ELSE 0)

NotARepo ==
    [is_git_repo |-> FALSE, current_branch |-> "unknown", has_changes |-> FALSE,
     change_count |-> 0, recent_commits |-> <<>>]

analyze_git_status(v, metaFiles) ==
    IF v.mode \in {"none", "missing"} THEN NotARepo
    ELSE [is_git_repo |-> TRUE, current_branch |-> "main",
          has_changes |-> StatusEntries(v, metaFiles) # 0,
          change_count |-> StatusEntries(v, metaFiles),
          recent_commits |-> <<"c1">>]

(***************************************************************************)
(* detect_build_tools.  A manifest is the text of package.json after       *)
(* json.load: not well-formed, or a JSON value of some type whose          *)
(* "scripts" member, when it has one, is of some type.                     *)
(***************************************************************************)
PackageJson == <<"package", ".", "json">>

NoTools == [build |-> <<>>, test |-> <<>>, lint |-> <<>>, format |-> <<>>]

HasWord(name, words) == \E w \in words : IsInfix(<<w>>, LowerName(name))

ClassifyScript(tools, name) ==
    LET cmd == ToString(<<"npm run", name>>)
    IN  IF HasWord(name, {"build", "compile"})
        THEN [tools EXCEPT !.build = Append(@, cmd)]
        ELSE IF HasWord(name, {"test", "spec"})
        THEN [tools EXCEPT !.test = Append(@, cmd)]
        ELSE IF HasWord(name, {"lint", "check"})
        THEN [tools EXCEPT !.lint = Append(@, cmd)]
        ELSE IF HasWord(name, {"format", "prettier"})
        THEN [tools EXCEPT !.format = Append(@, cmd)]
        ELSE tools

RECURSIVE ClassifyScripts(_, _)
ClassifyScripts(tools, names) ==
    IF names = <<>> THEN tools
    ELSE ClassifyScripts(ClassifyScript(tools, Head(names)), Tail(names))

\* lines 92-110: [raised, tools]; only json.JSONDecodeError is handled
ManifestTools(tree, types, m) ==
    IF ~(("javascript" \in Range(types) \/ "typescript" \in Range(types))
         /\ Exists(tree, <<PackageJson>>))
    THEN [raised |-> FALSE, tools |-> NoTools]
    ELSE IF ~m.wellformed
    THEN [raised |-> FALSE, tools |-> NoTools]
    ELSE IF m.top # "object"
    THEN [raised |-> TRUE, tools |-> NoTools]
    ELSE IF ~m.has_scripts
    THEN [raised |-> FALSE, tools |-> NoTools]
    ELSE IF m.scripts_type # "object"
    THEN [raised |-> TRUE, tools |-> NoTools]
    ELSE [raised |-> FALSE, tools |-> ClassifyScripts(NoTools, m.scripts)]

\* lines 112-121
PythonTools(tree, types, tools) ==
    IF "python" \notin Range(types) THEN tools
    ELSE LET has(f) == Exists(tree, <<f>>)
             testpy == \E f \in tree.files :
                          /\ StartsWith(Base(f), <<"test_">>)
                          /\ EndsWith(Base(f), <<".", "py">>)
             t1 == IF has(<<"setup", ".", "py">>)
                   THEN [tools EXCEPT !.build = Append(@, "python setup.py build")]
                   ELSE tools
             t2 == IF has(<<"pytest", ".", "ini">>) \/ testpy
                   THEN [t1 EXCEPT !.test = Append(@, "pytest")]
                   ELSE t1
             t3 == IF has(<<".", "flake8">>)
                   THEN [t2 EXCEPT !.lint = Append(@, "flake8")]
                   ELSE t2
         IN  IF has(<<"pyproject", ".", "toml">>)
             THEN [t3 EXCEPT !.format = Append(@, "black .")]
             ELSE t3

\* lines 123-135
FixedTools(types, tools) ==
    LET t1 == IF "rust" \in Range(types)
              THEN [build |-> Append(tools.build, "cargo build"),
                    test |-> Append(tools.test, "cargo test"),
                    format |-> Append(tools.format, "cargo fmt"),
                    lint |-> Append(tools.lint, "cargo clippy")]
              ELSE tools
    IN  IF "go" \in Range(types)
        THEN [build |-> Append(t1.build, "go build"),
              test |-> Append(t1.test, "go test ./..."),
              format |-> Append(t1.format, "go fmt ./..."),
              lint |-> Append(t1.lint, "golangci-lint run")]
        ELSE t1

detect_build_tools(tree, types, m) ==
    LET js == ManifestTools(tree, types, m)
    IN  [raised |-> js.raised,
         tools |-> FixedTools(types, PythonTools(tree, types, js.tools))]

(***************************************************************************)
(* _format_list and _generate_project_overview                             *)
(***************************************************************************)
ConfigShown == 10

NL == <<"\n">>

H2(title) == <<"#", "#", title>>

H3(title) == <<"#", "#", "#", title>>

RECURSIVE FormatItems(_)
FormatItems(items) ==
    IF items = <<>> THEN <<>>
    ELSE <<"- ", ToString(Head(items))>>
            \o (IF Len(items) > 1 THEN NL ELSE <<>>)
            \o FormatItems(Tail(items))

format_list(items, empty_message) ==
    IF items = <<>> THEN <<"- ", empty_message>> ELSE FormatItems(items)

YesNo(b) == IF b THEN "Yes" ELSE "No"

\* max(languages, key=languages.get), else project_types[0]
PrimaryLanguage(types, st) ==
    IF st.languages # <<>>
    THEN LET best == CHOOSE i \in 1..Len(st.languages) :
                        /\ \A j \in 1..Len(st.languages) :
                              st.languages[j].n <= st.languages[i].n
                        /\ \A j \in 1..(i - 1) : st.languages[j].n < st.languages[i].n
         IN  st.languages[best].lang
    ELSE types[1]

GitBlock(git) ==
    IF git.is_git_repo
    THEN Flatten(<<
        <<"- **Current Branch:** ", git.current_branch>>, NL,
        <<"- **Has Uncommitted Changes:** ", YesNo(git.has_changes)>>, NL,
        <<"- **Change Count:** ", ToString(git.change_count)>>, NL, NL,
        H3(" Recent Commits"), NL,
        format_list(git.recent_commits, "No recent commits"), NL >>)
    ELSE <<>>

generate_project_overview(types, git, tools, st, t) ==
    Flatten(<<
        <<"#", " Project Overview">>, NL, NL,
        <<"**Generated:** ", Stamp(t)>>, NL,
        <<"**Project Path:** <root>">>, NL,
        <<"**Analysis Version:** 1.0">>, NL, NL,
        H2(" Project Summary"), NL,
        <<"This appears to be a ", ToString(types), " project with ",
          ToString(st.total_files), " files.">>, NL, NL,
        H2(" Technology Stack"), NL,
        <<"- **Primary Language:** ", PrimaryLanguage(types, st)>>, NL,
        <<"- **Project Types:** ", ToString(types)>>, NL,
        <<"- **Languages Detected:** ", ToString(st.languages)>>, NL, NL,
        H2(" Project Structure"), NL,
        <<"Total Files: ", ToString(st.total_files)>>, NL,
        <<"Source Directories: ", ToString(Len(st.source_dirs))>>, NL,
        <<"Test Directories: ", ToString(Len(st.test_dirs))>>, NL,
        <<"Config Files: ", ToString(Len(st.config_files))>>, NL,
        <<"Documentation Files: ", ToString(Len(st.doc_files))>>, NL, NL,
        H3(" Key Directories"), NL,
        format_list(st.source_dirs, "No source directories identified"), NL, NL,
        H3(" Configuration Files"), NL,
        format_list(SubSeq(st.config_files, 1,
                           IF Len(st.config_files) < ConfigShown
                           THEN Len(st.config_files) ELSE ConfigShown),
                    "No configuration files found"), NL, NL,
        H3(" Documentation"), NL,
        format_list(st.doc_files, "No documentation files found"), NL, NL,
        H2(" Development Environment"), NL,
        H3(" Build Commands"), NL,
        format_list(tools.build, "No build commands detected"), NL, NL,
        H3(" Test Commands"), NL,
        format_list(tools.test, "No test commands detected"), NL, NL,
        H3(" Linting Commands"), NL,
        format_list(tools.lint, "No linting commands detected"), NL, NL,
        H3(" Formatting Commands"), NL,
        format_list(tools.format, "No formatting commands detected"), NL, NL,
        H2(" Git Repository Status"), NL,
        <<"- **Is Git Repo:** ", YesNo(git.is_git_repo)>>, NL,
        GitBlock(git),
        NL, H2(" Next Steps"), NL, <<"1. Review ... 4. Review">>, NL, NL,
        H2(" Questions for User"), NL, <<"1. What ... 4. Do you">>, NL, NL,
        <<"---">>, NL,
        <<"*This analysis was generated automatically on ", Stamp(t), "*">>, NL >>)

(***************************************************************************)
(* generate_analysis: the overview                                         *)
(***************************************************************************)
CustomNotes == <<"#", "#", " Custom Notes">>

\* The test of line 209 with the flag ignored.
UpdateBranchAlways(u, existing) == existing.exists

\* if update_mode and overview_file.exists()
UpdateBranch(u, existing) == u /\ existing.exists

\* existing_content.split('## Custom Notes')[1].split('\n##')[0]
custom_section(existing_content) ==
    SplitHead(SplitSecond(existing_content, CustomNotes), <<"\n", "#", "#">>)

\* lines 219-227
MergeOverview(existing_content, new_overview) ==
    IF Find(existing_content, CustomNotes) # 0
    THEN new_overview \o NL \o CustomNotes \o custom_section(existing_content)
    ELSE new_overview

(***************************************************************************)
(* _generate_initial_tasks                                                 *)
(***************************************************************************)
LastUpdated == "**Last Updated:**"

PendingTasks == "## Pending Tasks"

DocText == "Consider creating project documentation"

TestText == "Consider adding test coverage"

TaskLine(text) == <<"- [ ] ", text>>

AutoLine(text) == <<"- [ ] ", text, " (auto-suggested)">>

\* The test of line 348 answering "absent" whatever is on disk.
TrackerNeverExists(existing) == FALSE

\* if task_file.exists()
TrackerExists(existing) == existing.exists

\* re.sub(r'\*\*Last Updated:\*\*.*', f'**Last Updated:** {timestamp}', ...) on one line
SubLine(line, t) ==
    IF Find(line, <<LastUpdated>>) = 0 THEN line
    ELSE SubSeq(line, 1, Find(line, <<LastUpdated>>) - 1) \o <<LastUpdated, Stamp(t)>>

\* '.' does not match a newline and no count is given: every line that matches
SubAll(lines, t) == [i \in 1..Len(lines) |-> SubLine(lines[i], t)]

\* text in existing_content
Mentions(lines, text) ==
    \E i \in 1..Len(lines) : \E j \in 1..Len(lines[i]) : lines[i][j] = text

HeadingAt(lines) ==
    LET hits == {i \in 1..Len(lines) : Find(lines[i], <<PendingTasks>>) # 0}
    IN  IF hits = {} THEN 0 ELSE CHOOSE i \in hits : \A j \in hits : i <= j

\* The insertion placed before the heading line instead of after it.
InsertBeforeHeading(lines, new) ==
    IF HeadingAt(lines) = 0 THEN lines
    ELSE SubSeq(lines, 1, HeadingAt(lines) - 1) \o <<new>>
            \o SubSeq(lines, HeadingAt(lines), Len(lines))

\* for i, line in enumerate(lines): if '## Pending Tasks' in line: insert(i + 1); break
InsertAfterHeading(lines, new) ==
    IF HeadingAt(lines) = 0 THEN lines
    ELSE SubSeq(lines, 1, HeadingAt(lines)) \o <<new>>
            \o SubSeq(lines, HeadingAt(lines) + 1, Len(lines))

\* lines 348-383
UpdateTracker(existing, st, t) ==
    LET updated == SubAll(existing, t)
        withDoc == IF st.doc_files = <<>> /\ ~Mentions(existing, DocText)
                   THEN InsertAfterHeading(updated, AutoLine(DocText))
                   ELSE updated
    IN  IF st.languages # <<>> /\ st.test_dirs = <<>> /\ ~Mentions(existing, TestText)
        THEN InsertAfterHeading(withDoc, AutoLine(TestText))
        ELSE withDoc

\* lines 385-397
InitialTasks(st) ==
    << TaskLine("Complete project analysis and understand codebase"),
       TaskLine("Review existing documentation and README files"),
       TaskLine("Understand project goals and requirements") >>
    \o (IF st.doc_files = <<>> THEN <<TaskLine(DocText)>> ELSE <<>>)
    \o (IF st.languages # <<>> /\ st.test_dirs = <<>>
        THEN <<TaskLine(TestText)>> ELSE <<>>)

\* lines 399-420
CreateTracker(st, t) ==
    << <<"# Task Tracker">>, <<>>, <<LastUpdated, Stamp(t)>>, <<>>, <<PendingTasks>> >>
    \o InitialTasks(st)
    \o << <<>>, <<"## Completed Tasks">>,
          <<"- [x] Initialize Claude workflow automation">>,
          <<"- [x] Complete automated project analysis">>, <<>>,
          <<"## Task History">>,
          <<"| Date | Task | Status | Notes |">>,
          <<"|------|------|--------|-------|">>,
          <<"| ", Date(t), " | Initialize workflow | Completed | Auto-setup complete |">>,
          <<"| ", Date(t), " | Project analysis | Completed | Automated analysis complete |">>,
          <<>>, <<"## Resources & Links">>,
          <<"- Project Root: <root>">>,
          <<"- Claude Directory: <root>/.claude">>,
          <<"- Context Directory: <root>/.claude/context">>, <<>> >>

(***************************************************************************)
(* Inputs.                                                                 *)
(***************************************************************************)
SeqsUpTo(S, n) == UNION {[1..k -> S] : k \in 0..n}

MainPy == <<"main", ".", "py">>
Readme == <<"README", ".", "md">>
IndexJs == <<"index", ".", "js">>

RootNames == { <<"proj">>, <<".", "app">> }

DirNames ==
    { <<".", "git">>, <<"node_modules">>, <<"__pycache__">>, <<"target">>,
      <<"target", "s">>, <<"src">>, <<"Test", "s">> }

FileNames == { MainPy, <<"conf", ".", "json">>, <<"notes">> }

MarkerNames ==
    UNION {Range(indicators[i].files) : i \in 1..Len(indicators)} \cup {Readme}

EmptyTree(n) == [name |-> n, dirs |-> {}, files |-> {}]

Projects ==
    { EmptyTree(<<"proj">>),
      [name |-> <<"proj">>, dirs |-> {}, files |-> { <<MainPy>> }],
      [name |-> <<"proj">>, dirs |-> { << <<"Test", "s">> >>, << <<"src">> >> },
       files |-> { <<Readme>>, << <<"src">>, MainPy >> }],
      [name |-> <<"proj">>, dirs |-> {}, files |-> { <<PackageJson>>, <<IndexJs>> }] }

GoodManifest ==
    [wellformed |-> TRUE, top |-> "object", has_scripts |-> TRUE,
     scripts_type |-> "object",
     scripts |-> << <<"build", ":", "prod">>, <<"test", ":", "unit">>, <<"release">> >>]

Manifests ==
    { GoodManifest,
      [GoodManifest EXCEPT !.wellformed = FALSE],
      [GoodManifest EXCEPT !.top = "array"],
      [GoodManifest EXCEPT !.top = "string"],
      [GoodManifest EXCEPT !.has_scripts = FALSE],
      [GoodManifest EXCEPT !.scripts_type = "array"],
      [GoodManifest EXCEPT !.scripts_type = "null"] }

Environments ==
    { [mode |-> m, base |-> 0] : m \in {"none", "missing"} }
    \cup { [mode |-> m, base |-> b] : m \in {"ignored", "untracked"}, b \in 0..MaxBase }

OverviewLines ==
    { CustomNotes, <<"keep me">>, <<"#", "#", "#", " Sub">>, <<"#", "#", " Other">> }

OverviewInputs == { JoinLines(ls) : ls \in SeqsUpTo(OverviewLines, MaxOvLines) }

TrackerLines ==
    { <<PendingTasks>>, TaskLine("task"), <<LastUpdated, " old">>,
      TaskLine(DocText), TaskLine(TestText) }

TrackerInputs == SeqsUpTo(TrackerLines, MaxLines) \ { <<>> }

(***************************************************************************)
(* Initial states.                                                         *)
(***************************************************************************)
NoStart == [overview |-> NoFile, tracker |-> NoFile, bak |-> NoFile]

NoPrev == [valid |-> FALSE, upd |-> FALSE, text |-> <<>>]

Fresh ==
    /\ upd = FALSE /\ clock = 0
    /\ project_types = <<>> /\ git_info = NotARepo
    /\ build_tools = NoTools /\ structure = EmptyStructure
    /\ outcome = "none" /\ start = NoStart /\ prev = NoPrev
    /\ bak = NoFile

\* an existing overview, hand-edited
InitOverviews ==
    /\ fs \in { t \in Projects : t.files = { <<MainPy>> } }
    /\ manifest = GoodManifest
    /\ vcs = [mode |-> "none", base |-> 0]
    /\ overview \in { File(t) : t \in OverviewInputs }
    /\ tracker = NoFile
    /\ meta = TRUE

\* an existing task tracker, hand-edited
InitTrackers ==
    /\ fs \in Projects
    /\ manifest = GoodManifest
    /\ vcs = [mode |-> "none", base |-> 0]
    /\ overview = NoFile
    /\ tracker \in { File(t) : t \in TrackerInputs }
    /\ meta = TRUE

\* a project the command has not been run on
InitProjects ==
    /\ fs \in Projects
    /\ manifest \in (IF Exists(fs, <<PackageJson>>) THEN Manifests ELSE {GoodManifest})
    /\ vcs \in Environments
    /\ overview = NoFile
    /\ tracker = NoFile
    /\ meta = FALSE

Init == pc = "idle" /\ Fresh /\ (InitOverviews \/ InitTrackers \/ InitProjects)

InitBuild ==
    /\ pc = "build" /\ Fresh
    /\ manifest = GoodManifest
    /\ vcs = [mode |-> "none", base |-> 0]
    /\ overview = NoFile /\ tracker = NoFile /\ meta = FALSE

InitScan == InitBuild /\ fs \in { EmptyTree(n) : n \in RootNames }

InitDetect == InitBuild /\ fs = EmptyTree(<<"proj">>)

(***************************************************************************)
(* The tree as it is made, and the two analyses applied to it.             *)
(***************************************************************************)
env == <<manifest, vcs, meta>>
docs == <<overview, bak, tracker>>
locals == <<project_types, git_info, build_tools, structure>>
hist == <<start, prev>>

Mkdir(d, n) ==
    /\ pc = "build"
    /\ Cardinality(fs.dirs) < MaxDirs
    /\ ~Exists(fs, Append(d, n))
    /\ fs' = [fs EXCEPT !.dirs = @ \cup {Append(d, n)}]
    /\ UNCHANGED <<env, docs, pc, upd, clock, locals, outcome, hist>>

Touch(d, n) ==
    /\ pc = "build"
    /\ Cardinality(fs.files) < MaxFiles
    /\ ~Exists(fs, Append(d, n))
    /\ fs' = [fs EXCEPT !.files = @ \cup {Append(d, n)}]
    /\ UNCHANGED <<env, docs, pc, upd, clock, locals, outcome, hist>>

TouchMarker(n) ==
    /\ pc = "build"
    /\ Cardinality(fs.files) < MaxMarkers
    /\ ~Exists(fs, <<n>>)
    /\ fs' = [fs EXCEPT !.files = @ \cup {<<n>>}]
    /\ UNCHANGED <<env, docs, pc, upd, clock, locals, outcome, hist>>

ScanStep ==
    /\ pc = "build"
    /\ structure' = scan_project_structure(fs)
    /\ pc' = "analyzed"
    /\ UNCHANGED <<fs, env, docs, upd, clock, project_types, git_info, build_tools,
                   outcome, hist>>

DetectStep ==
    /\ pc = "build"
    /\ project_types' = detect_project_type(fs)
    /\ pc' = "analyzed"
    /\ UNCHANGED <<fs, env, docs, upd, clock, git_info, build_tools, structure,
                   outcome, hist>>

NextScan ==
    \/ \E d \in fs.dirs \cup {Root} : \E n \in DirNames : Mkdir(d, n)
    \/ \E d \in fs.dirs \cup {Root} : \E n \in FileNames : Touch(d, n)
    \/ ScanStep

NextDetect ==
    \/ \E n \in MarkerNames : TouchMarker(n)
    \/ DetectStep

SpecScan == InitScan /\ [][NextScan]_vars

SpecDetect == InitDetect /\ [][NextDetect]_vars

(***************************************************************************)
(* One invocation of the command: main, __init__, generate_analysis.       *)
(* An invocation is cut at its file-system effects, each of which may fail *)
(* with an OSError that leaves the file as it was.  outcome is "ok" (exit  *)
(* status 0), "error" (an exception of the analysis caught in main, one    *)
(* error line, exit status 1), "io_error" (the same for an OSError) or     *)
(* "traceback" (an exception nothing catches).                             *)
(***************************************************************************)
Claude == <<".", "claude">>
Context == <<"context">>
OverviewMd == <<"project-overview", ".", "md">>
OverviewBak == <<"project-overview", ".", "md", ".", "bak">>
TrackerMd == <<"task-tracker", ".", "md">>

\* the project tree together with the metadata directory
FullTree ==
    [fs EXCEPT
        !.dirs = @ \cup (IF meta THEN { <<Claude>>, <<Claude, Context>> } ELSE {}),
        !.files = @ \cup (IF overview.exists THEN { <<Claude, Context, OverviewMd>> } ELSE {})
                    \cup (IF bak.exists THEN { <<Claude, Context, OverviewBak>> } ELSE {})
                    \cup (IF tracker.exists THEN { <<Claude, Context, TrackerMd>> } ELSE {})]

Fail(how) ==
    /\ pc' = "idle"
    /\ outcome' = how

Invoke(u) ==
    /\ pc = "idle"
    /\ clock < MaxRuns
    /\ pc' = "init"
    /\ upd' = u
    /\ clock' = clock + 1
    /\ outcome' = "running"
    /\ start' = [overview |-> overview, tracker |-> tracker, bak |-> bak]
    /\ prev' = [valid |-> outcome = "ok", upd |-> upd, text |-> overview.text]
    /\ project_types' = <<>> /\ git_info' = NotARepo
    /\ build_tools' = NoTools /\ structure' = EmptyStructure
    /\ UNCHANGED <<fs, env, docs>>

\* __init__: the two mkdir calls
Construct ==
    /\ pc = "init"
    /\ meta' = TRUE
    /\ pc' = "analyze"
    /\ UNCHANGED <<fs, manifest, vcs, docs, upd, clock, locals, outcome, hist>>

\* a mkdir that raises; main calls the constructor outside its try block
ConstructFault ==
    /\ pc = "init"
    /\ ~meta
    /\ Fail("traceback")
    /\ UNCHANGED <<fs, env, docs, upd, clock, locals, hist>>

\* generate_analysis, lines 202-205
AnalyzeOk ==
    /\ pc = "analyze"
    /\ LET types == detect_project_type(FullTree)
           tools == detect_build_tools(FullTree, types, manifest)
       IN  /\ ~tools.raised
           /\ project_types' = types
           /\ git_info' = analyze_git_status(vcs, MetaHasFiles)
           /\ build_tools' = tools.tools
           /\ structure' = scan_project_structure(FullTree)
    /\ pc' = "overview"
    /\ UNCHANGED <<fs, env, docs, upd, clock, outcome, hist>>

\* detect_build_tools raises; main catches it
AnalyzeRaise ==
    /\ pc = "analyze"
    /\ detect_build_tools(FullTree, detect_project_type(FullTree), manifest).raised
    /\ Fail("error")
    /\ UNCHANGED <<fs, env, docs, upd, clock, locals, hist>>

\* shutil.copy(overview_file, backup_file)
Backup ==
    /\ pc = "overview"
    /\ UpdateBranch(upd, overview)
    /\ bak' = File(overview.text)
    /\ pc' = "merge"
    /\ UNCHANGED <<fs, env, overview, tracker, upd, clock, locals, outcome, hist>>

BackupFault ==
    /\ pc = "overview"
    /\ UpdateBranch(upd, overview)
    /\ Fail("io_error")
    /\ UNCHANGED <<fs, env, docs, upd, clock, locals, hist>>

\* lines 215-230
WriteMerged ==
    /\ pc = "merge"
    /\ overview' = File(MergeOverview(overview.text,
                           generate_project_overview(project_types, git_info,
                                                     build_tools, structure, clock)))
    /\ pc' = "tasks"
    /\ UNCHANGED <<fs, env, bak, tracker, upd, clock, locals, outcome, hist>>

\* lines 232-237
WriteFresh ==
    /\ pc = "overview"
    /\ ~UpdateBranch(upd, overview)
    /\ overview' = File(generate_project_overview(project_types, git_info,
                                                  build_tools, structure, clock))
    /\ pc' = "tasks"
    /\ UNCHANGED <<fs, env, bak, tracker, upd, clock, locals, outcome, hist>>

WriteOverviewFault ==
    /\ pc = "merge" \/ (pc = "overview" /\ ~UpdateBranch(upd, overview))
    /\ Fail("io_error")
    /\ UNCHANGED <<fs, env, docs, upd, clock, locals, hist>>

\* _generate_initial_tasks, the file present
WriteTrackerUpdate ==
    /\ pc = "tasks"
    /\ TrackerExists(tracker)
    /\ tracker' = File(UpdateTracker(tracker.text, structure, clock))
    /\ pc' = "idle"
    /\ outcome' = "ok"
    /\ UNCHANGED <<fs, env, overview, bak, upd, clock, locals, hist>>

\* _generate_initial_tasks, the file absent
WriteTrackerCreate ==
    /\ pc = "tasks"
    /\ ~TrackerExists(tracker)
    /\ tracker' = File(CreateTracker(structure, clock))
    /\ pc' = "idle"
    /\ outcome' = "ok"
    /\ UNCHANGED <<fs, env, overview, bak, upd, clock, locals, hist>>

WriteTrackerFault ==
    /\ pc = "tasks"
    /\ Fail("io_error")
    /\ UNCHANGED <<fs, env, docs, upd, clock, locals, hist>>

Next ==
    \/ \E u \in BOOLEAN : Invoke(u)
    \/ Construct
    \/ ConstructFault
    \/ AnalyzeOk
    \/ AnalyzeRaise
    \/ Backup
    \/ BackupFault
    \/ WriteMerged
    \/ WriteFresh
    \/ WriteOverviewFault
    \/ WriteTrackerUpdate
    \/ WriteTrackerCreate
    \/ WriteTrackerFault

Spec == Init /\ [][Next]_vars

(***************************************************************************)
(* Properties.                                                             *)
(***************************************************************************)
\* the invocation has returned from generate_analysis
Done == pc = "idle" /\ outcome = "ok"

\* the overview of this invocation is on disk
Written == pc = "tasks" \/ Done

FreshOverview ==
    generate_project_overview(project_types, git_info, build_tools, structure, clock)

Occurrences(text, pat) ==
    Cardinality({i \in 1..Len(text) : i + Len(pat) - 1 <= Len(text)
                                       /\ SubSeq(text, i, i + Len(pat) - 1) = pat})

\* from the heading to the next line that starts with "##" and no third "#", or to the end
SectionToNextTopHeading(text) ==
    LET h == Find(text, CustomNotes)
        tops == {i \in (h + 1)..(Len(text) - 2) :
                    /\ text[i] = "\n" /\ text[i + 1] = "#" /\ text[i + 2] = "#"
                    /\ (i + 3 > Len(text) \/ text[i + 3] # "#")}
        stop == IF tops = {} THEN Len(text) + 1
                ELSE CHOOSE i \in tops : \A j \in tops : i <= j
    IN  SubSeq(text, h, stop - 1)

\* C1: an update-mode run over an overview that holds the heading "## Custom Notes"
\* writes the fresh overview followed by the section, which runs from the heading to
\* the next top-level "##" heading or the end of the file, "###" sub-headings included.
C1_CustomNotesSectionKept ==
    (/\ Written /\ upd /\ start.overview.exists
     /\ Occurrences(start.overview.text, CustomNotes) = 1)
    => overview.text =
         FreshOverview \o NL \o SectionToNextTopHeading(start.overview.text)

HasStamp(line) == Find(line, <<LastUpdated>>) # 0

IsTask(line) == Len(line) > 0 /\ line[1] = "- [ ] "

Count(lines, line) == Cardinality({i \in 1..Len(lines) : lines[i] = line})

NeedsBothSuggestions ==
    /\ structure.doc_files = <<>>
    /\ structure.test_dirs = <<>>
    /\ structure.languages # <<>>

\* the heading line followed by exactly one task line
HeadingThenOneTask(lines) ==
    \E h \in 1..(Len(lines) - 1) :
        /\ lines[h] = <<PendingTasks>>
        /\ \A i \in 1..(h - 1) : lines[i] # <<PendingTasks>>
        /\ IsTask(lines[h + 1])
        /\ (h + 2 <= Len(lines) => ~IsTask(lines[h + 2]))

\* C2, as stated: whatever the one task line is, the run puts the two suggestion lines
\* right below the heading, test coverage first.
C2_TwoSuggestionsBelowHeading ==
    (/\ Done /\ start.tracker.exists /\ NeedsBothSuggestions
     /\ HeadingThenOneTask(start.tracker.text))
    => LET old == start.tracker.text
           new == tracker.text
           h == HeadingAt(old)
       IN  /\ Len(new) = Len(old) + 2
           /\ new[h + 1] = AutoLine(TestText)
           /\ new[h + 2] = AutoLine(DocText)
           /\ new[h + 3] = old[h + 1]

\* C2, amended: in a project with no doc file, no test directory and a counted
\* language, a tracker that holds a "## Pending Tasks" line and neither suggestion
\* text gets the two suggestion lines right below the first such line, test coverage
\* above documentation, and nothing else moves; a suggestion whose text the file
\* already holds anywhere is not inserted, so no run adds a second copy.
C2_SuggestionsInsertedOnce ==
    (Done /\ start.tracker.exists /\ NeedsBothSuggestions)
    => LET old == start.tracker.text
           new == tracker.text
           h == HeadingAt(old)
           docs_in == ~Mentions(old, DocText)
           tests_in == ~Mentions(old, TestText)
       IN  /\ (h # 0 /\ docs_in /\ tests_in) =>
                 /\ Len(new) = Len(old) + 2
                 /\ new[h + 1] = AutoLine(TestText)
                 /\ new[h + 2] = AutoLine(DocText)
                 /\ \A i \in 1..Len(old) :
                       ~HasStamp(old[i]) => new[IF i <= h THEN i ELSE i + 2] = old[i]
           /\ ~docs_in => Count(new, AutoLine(DocText)) = Count(old, AutoLine(DocText))
           /\ ~tests_in => Count(new, AutoLine(TestText)) = Count(old, AutoLine(TestText))
           /\ Count(old, AutoLine(DocText)) = 0 => Count(new, AutoLine(DocText)) <= 1
           /\ Count(old, AutoLine(TestText)) = 0 => Count(new, AutoLine(TestText)) <= 1

\* a second run over the tracker the first run extended adds nothing
C2_Witness ==
    /\ Done /\ NeedsBothSuggestions
    /\ start.tracker.text =
         << <<PendingTasks>>, AutoLine(TestText), AutoLine(DocText), TaskLine("task") >>
    /\ tracker.text = start.tracker.text

RECURSIVE IsSubsequence(_, _)
IsSubsequence(a, b) ==
    IF a = <<>> THEN TRUE
    ELSE IF b = <<>> THEN FALSE
    ELSE IF Head(a) = Head(b) THEN IsSubsequence(Tail(a), Tail(b))
    ELSE IsSubsequence(a, Tail(b))

KeptLines(lines) == SelectSeq(lines, LAMBDA l : ~HasStamp(l))

IsStamp(c) == \E t \in 0..MaxRuns : c = Stamp(t)

SameButStamps(a, b) ==
    /\ Len(a) = Len(b)
    /\ \A i \in 1..Len(a) : a[i] = b[i] \/ (IsStamp(a[i]) /\ IsStamp(b[i]))

StatusLabels == {"- **Has Uncommitted Changes:** ", "- **Change Count:** "}

SameButStampsAndStatus(a, b) ==
    /\ Len(a) = Len(b)
    /\ \A i \in 1..Len(a) :
          \/ a[i] = b[i]
          \/ IsStamp(a[i]) /\ IsStamp(b[i])
          \/ i > 1 /\ a[i - 1] = b[i - 1] /\ a[i - 1] \in StatusLabels

TwoCreateRuns == Done /\ ~upd /\ prev.valid /\ ~prev.upd

UpdatesExisting == upd /\ start.overview.exists

\* C5: an update-mode run over an existing overview writes the backup before it
\* overwrites the overview, and the backup is the overview as the run found it; from
\* then on the backup stays what the latest such run found; a run in create mode, or
\* one that finds no overview, leaves the backup alone.
C5_BackupBeforeOverwrite ==
    /\ [](pc # "idle" \/ outcome = "ok" =>
            IF UpdatesExisting /\ pc \in {"merge", "tasks", "idle"}
            THEN bak = start.overview
            ELSE bak = start.bak)
    /\ [][/\ (overview' # overview /\ UpdatesExisting) =>
                 (bak = start.overview /\ overview = start.overview)
          /\ bak' # bak =>
                 (UpdatesExisting /\ bak' = overview /\ overview = start.overview)]_vars

\* the second update-mode run replaces the backup of the first
C5_Witness ==
    /\ Done /\ UpdatesExisting
    /\ start.bak.exists
    /\ bak # start.bak
    /\ bak = start.overview
    /\ overview # bak

\* the new text with the lines inserted below the heading taken out
WithoutInserted(old, new) ==
    LET h == HeadingAt(old)
        k == Len(new) - Len(old)
    IN  IF h = 0 \/ k <= 0 THEN new
        ELSE SubSeq(new, 1, h) \o SubSeq(new, h + k + 1, Len(new))

FirstStamped(lines) ==
    LET hits == {i \in 1..Len(lines) : HasStamp(lines[i])}
    IN  IF hits = {} THEN 0 ELSE CHOOSE i \in hits : \A j \in hits : i <= j

\* C6: a run over an existing tracker rewrites only the first line that matches
\* "**Last Updated:**"; every other line, a later match included, is kept verbatim,
\* the inserted suggestion lines apart.
C6_OnlyFirstStampRewritten ==
    (Done /\ start.tracker.exists)
    => LET old == start.tracker.text
           core == WithoutInserted(old, tracker.text)
       IN  /\ Len(core) = Len(old)
           /\ \A i \in 1..Len(old) : i # FirstStamped(old) => core[i] = old[i]

HiddenOrVendor(n) ==
    n[1] = "." \/ n = <<"node_modules">> \/ n = <<"__pycache__">> \/ n = <<"target">>

DirVisible(d) == \A i \in 1..Len(d) : ~HiddenOrVendor(d[i])

VisibleFiles == {f \in fs.files : DirVisible(Parent(f))}

LanguageOf(f) ==
    LET ext == LowerName(Suffix(Base(f)))
    IN  IF Len(ext) = 2 /\ ext[2] \in DOMAIN source_extensions
        THEN source_extensions[ext[2]] ELSE "none"

\* C7: the scan never descends into a directory below the root whose name starts with
\* "." or is node_modules, __pycache__ or target: every listed path and every counted
\* language file lies outside such directories, and total_files is the number of files
\* in the directories that remain, classified or not.
C7_ScanSkipsPruned ==
    pc = "analyzed" =>
    /\ \A p \in Range(structure.config_files) \cup Range(structure.doc_files) :
          p \in VisibleFiles
    /\ \A d \in Range(structure.source_dirs) \cup Range(structure.test_dirs) :
          (d = Root \/ d \in fs.dirs) /\ DirVisible(d)
    /\ structure.total_files = Cardinality(VisibleFiles)
    /\ \A i \in 1..Len(structure.languages) :
          structure.languages[i].n =
             Cardinality({f \in VisibleFiles : LanguageOf(f) = structure.languages[i].lang})
    /\ \A f \in VisibleFiles :
          LanguageOf(f) # "none" =>
             \E i \in 1..Len(structure.languages) : structure.languages[i].lang = LanguageOf(f)

\* a source file in an ordinary directory below a pruned one is not counted, a file at
\* the root is
C7_Witness ==
    /\ pc = "analyzed"
    /\ \E f \in fs.files :
          /\ Len(f) = 3 /\ HiddenOrVendor(f[1]) /\ ~HiddenOrVendor(f[2])
          /\ Base(f) = MainPy
    /\ \E f \in fs.files : Len(f) = 1
    /\ structure.total_files = 1
    /\ structure.languages = <<>>

TagsPresent ==
    {i \in 1..Len(indicators) :
        \E j \in 1..Len(indicators[i].files) : Exists(fs, <<indicators[i].files[j]>>)}

TagIndex(tag) == CHOOSE i \in 1..Len(indicators) : indicators[i].tag = tag

Malformed(m) ==
    \/ ~m.wellformed
    \/ m.top # "object"
    \/ m.has_scripts /\ m.scripts_type # "object"

\* C9: a package.json that is not a well-formed JSON object with a script table never
\* aborts the run: unless an I/O operation fails, the run ends with both documents
\* written and no command taken from the manifest.
C9_MalformedManifestIgnored ==
    (/\ pc = "idle" /\ outcome \in {"ok", "error"}
     /\ Exists(fs, <<PackageJson>>) /\ Malformed(manifest))
    => /\ outcome = "ok"
       /\ overview.exists /\ tracker.exists
       /\ build_tools = NoTools

\* C10: every failure of a run, the creation of the metadata directory included, is
\* caught at the command entry point and reported as one error line with exit status 1.
C10_FailuresCaughtAtEntry ==
    (pc = "idle" /\ outcome \notin {"none", "ok"}) => outcome \in {"error", "io_error"}

====
